---- MODULE Spec2Model ----
(***************************************************************************)
(* Model of weekly-security-ai: the four-step security agent pipeline      *)
(* (internal/agent), the LLM client with its retry wrapper and response    *)
(* clean-up (internal/llm).                                                *)
(*                                                                         *)
(* Five specifications share the module:                                   *)
(*   Spec       one ProcessScan run, split at its blocking model calls     *)
(*   SpecRetry  one CallLLMWithRetry invocation                            *)
(*   SpecClean  the fence clean-up CallLLM applies to the model content    *)
(*   SpecHTTP   one POST request to a scan endpoint (internal/api)         *)
(*   SpecConc   two ProcessScan runs interleaved on the one agent          *)
(***************************************************************************)
EXTENDS Naturals, Integers, Sequences, FiniteSets, TLC

VARIABLES
    \* ---- ProcessScan (internal/agent) ----
    pc,          \* position of ProcessScan
    calls,       \* steps whose a.llm.CallLLM has been invoked, in order
    outcomes,    \* per returned call: "ok", "llm_error" or "parse_error"
    inflight,    \* number of model calls issued and not yet returned
    prompt,      \* data embedded in the prompt of the last call
    lastResp,    \* what the model provider answered to the last call
    exchanges,   \* per returned call: the prompt sent and the answer got
    analysis,    \* local analysis   (step 1 result)
    priorities,  \* local priorities (step 2 result)
    fixes,       \* local fixes      (step 3 result)
    response,    \* the AgentResponse under construction
    ret,         \* what ProcessScan returned
    deadline,    \* whether ctx is past its deadline, and the calls returned by then
    \* ---- CallLLMWithRetry (internal/llm) ----
    r_pc,        \* position of CallLLMWithRetry
    maxRetries,  \* its argument
    attempt,     \* loop variable
    lastErr,     \* local lastErr
    ctxDone,     \* the context is cancelled or past its deadline
    r_log,       \* events of the invocation: calls (with outcome) and waits
    r_ret,       \* what CallLLMWithRetry returned
    \* ---- CallLLM clean-up (internal/llm) ----
    c_pc,        \* "in" before, "returned" after the clean-up
    c_in,        \* the parts the model content is made of
    c_out,       \* the text CallLLM returns
    c_err,       \* the error CallLLM returns, "nil" for none
    c_requests,  \* outbound requests made by the invocation
    \* ---- HTTP handlers (internal/api) ----
    h_pc,        \* position of the request in the handlers
    h_req,       \* the request as sent
    h_bodyRead,  \* the request body has been read by a bind
    h_forced,    \* AgentScanHandler has set UseAgent on its own ScanRequest
    h_bound,     \* local req of ScanHandler
    h_scan,      \* outcome of trivy.RunScan: "none", "ok" or "error"
    h_run,       \* the pipeline run started for the request, if any
    h_resp,      \* the reply written
    h_llm,       \* the model call made for the request and how it ended
    \* ---- concurrent ProcessScan runs on the one SecurityAgent ----
    t_agent,     \* the fields of the process-wide SecurityAgent
    t_pc,        \* per run: position of ProcessScan
    t_loc,       \* per run: the locals analysis, priorities, fixes, response
    t_x,         \* per run: per returned call, the prompt sent and the answer got
    t_ret        \* per run: what ProcessScan returned

agentVars == <<pc, calls, outcomes, inflight, prompt, lastResp, exchanges,
               analysis, priorities, fixes, response, ret, deadline>>
retryVars == <<r_pc, maxRetries, attempt, lastErr, ctxDone, r_log, r_ret>>
cleanVars == <<c_pc, c_in, c_out, c_err, c_requests>>
handlerVars == <<h_pc, h_req, h_bodyRead, h_forced, h_bound, h_scan, h_run, h_resp,
                 h_llm>>
concVars == <<t_agent, t_pc, t_loc, t_x, t_ret>>
vars == <<agentVars, retryVars, cleanVars, handlerVars, concVars>>

(***************************************************************************)
(* Bounds of the model                                                     *)
(***************************************************************************)
MaxVulns == 2      \* longest vulnerability list the model returns
MaxPrios == 2      \* longest priority list the model returns
MaxFixes == 2      \* longest fix list the model returns
MaxAttempts == 3   \* largest maxRetries tried
MaxInner == 5      \* longest text between the fences, in symbols

(***************************************************************************)
(* Data of the pipeline                                                    *)
(***************************************************************************)
VulnIds == {"CVE-A", "CVE-B"}

\* Ranks the model may answer: 3 is the threshold itself, 4 the first rank
\* above it, 0 what an entry without a priority field decodes to.
RankValues == {0, 3, 4}

\* config.PriorityThreshold as set by the process-wide agent
PriorityThreshold == 3

SeqsUpTo(S, n) == UNION {[1..k -> S] : k \in 0..n}

Vulnerability == [ID : VulnIds]
Priority == [VulnerabilityID : VulnIds, Priority : RankValues]
Fix == [VulnerabilityID : VulnIds]

ZeroAnalysis ==
    [TotalVulnerabilities |-> 0, Vulnerabilities |-> <<>>, RiskScore |-> 0]

\* Analyses the model can answer with a well-formed object.  The model's own
\* count is not checked against the list.
SecurityAnalysis ==
    {[TotalVulnerabilities |-> Len(vs), Vulnerabilities |-> vs, RiskScore |-> 85] :
        vs \in SeqsUpTo(Vulnerability, MaxVulns)}

ZeroPackage == [Fixes |-> <<>>, CommitMessage |-> "", PRTitle |-> ""]

\* Packages the model can answer with a well-formed object.  Its fixes array
\* is either empty or an echo of one fix.
RemediationPackage ==
    {[Fixes |-> fs, CommitMessage |-> "fix: resolve vulnerabilities",
      PRTitle |-> "Security fixes"] : fs \in {<<>>} \cup {<<f>> : f \in Fix}}

StepAnalyze == "analyze"
StepPrioritize == "prioritize"
StepGenerateFixes == "generate_fixes"
StepCreatePackage == "create_package"

AgentStep == {StepAnalyze, StepPrioritize, StepGenerateFixes, StepCreatePackage}

\* The order in which ProcessScan runs the steps
StepOrder == <<StepAnalyze, StepPrioritize, StepGenerateFixes, StepCreatePackage>>

(***************************************************************************)
(* Model responses.  A response is a transport error or a text; the text   *)
(* is described by the JSON document it denotes:                           *)
(*   notjson   not JSON at all                                             *)
(*   null      the JSON value null                                         *)
(*   scalar    a JSON string or number                                     *)
(*   emptyobj  {}                                                          *)
(*   obj       an object carrying the fields of val                        *)
(*   arr       an array carrying the elements of val                       *)
(*   mistyped  an object or array with a wrongly typed field               *)
(***************************************************************************)
ValuelessKinds == {"notjson", "null", "scalar", "emptyobj", "mistyped"}

Resp(err, kind, val) == [err |-> err, kind |-> kind, val |-> val]

NoResp == Resp(FALSE, "none", <<>>)

\* json.Unmarshal into a struct variable holding its zero value
UnmarshalStruct(kind, val, zero) ==
    CASE kind = "obj"      -> [ok |-> TRUE,  val |-> val]
      [] kind = "emptyobj" -> [ok |-> TRUE,  val |-> zero]
      [] kind = "null"     -> [ok |-> TRUE,  val |-> zero]
      [] OTHER             -> [ok |-> FALSE, val |-> zero]

\* json.Unmarshal into a nil slice variable
UnmarshalSlice(kind, val) ==
    CASE kind = "arr"  -> [ok |-> TRUE,  val |-> val]
      [] kind = "null" -> [ok |-> TRUE,  val |-> <<>>]
      [] OTHER         -> [ok |-> FALSE, val |-> <<>>]

(***************************************************************************)
(* generateFixes: the vulnerabilities sent for fixing                      *)
(***************************************************************************)
PriorityMap_FirstWins(prios) ==
    [id \in {prios[i].VulnerabilityID : i \in DOMAIN prios} |->
        LET first == CHOOSE i \in DOMAIN prios :
                         /\ prios[i].VulnerabilityID = id
                         /\ \A j \in DOMAIN prios :
                                prios[j].VulnerabilityID = id => i <= j
        IN prios[first].Priority]

\* priorityMap after the loop over priorities: a later entry for the same
\* identifier overwrites an earlier one.
PriorityMap(prios) ==
    [id \in {prios[i].VulnerabilityID : i \in DOMAIN prios} |->
        LET last == CHOOSE i \in DOMAIN prios :
                        /\ prios[i].VulnerabilityID = id
                        /\ \A j \in DOMAIN prios :
                               prios[j].VulnerabilityID = id => j <= i
        IN prios[last].Priority]

HighPriorityVulns_NoExistsCheck(vulns, prios, threshold) ==
    LET priorityMap == PriorityMap(prios)
        Keep(vuln) == (IF vuln.ID \in DOMAIN priorityMap
                       THEN priorityMap[vuln.ID] ELSE 0) <= threshold
    IN SelectSeq(vulns, Keep)

\* highPriorityVulns after the loop over analysis.Vulnerabilities
HighPriorityVulns(vulns, prios, threshold) ==
    LET priorityMap == PriorityMap(prios)
        Keep(vuln) == /\ vuln.ID \in DOMAIN priorityMap
                      /\ priorityMap[vuln.ID] <= threshold
    IN SelectSeq(vulns, Keep)

(***************************************************************************)
(* createRemediationPackage: the package returned for a parsed response    *)
(***************************************************************************)
PackageOf_KeepEcho(pkg, fixList) == pkg

\* pkg.Fixes = fixes
PackageOf(pkg, fixList) == [pkg EXCEPT !.Fixes = fixList]

(***************************************************************************)
(* ProcessScan                                                             *)
(***************************************************************************)
TargetType == "dockerfile"
Target == "./Dockerfile"
TrivyJSON == "trivy-json"

NoErr == [step |-> "", cause |-> ""]

\* fmt.Errorf("<step> step failed: %w", fmt.Errorf("<cause>: %w", err))
StepError(stepName, cause) == [step |-> stepName, cause |-> cause]

ErrName_CopyPaste == [s \in AgentStep |-> "analysis"]

ErrName == [s \in AgentStep |->
    CASE s = StepAnalyze       -> "analysis"
      [] s = StepPrioritize    -> "prioritization"
      [] s = StepGenerateFixes -> "fix generation"
      [] s = StepCreatePackage -> "package creation"]

AgentInit ==
    /\ pc = "start"
    /\ calls = <<>>
    /\ outcomes = <<>>
    /\ inflight = 0
    /\ prompt = [step |-> "none"]
    /\ lastResp = NoResp
    /\ exchanges = <<>>
    /\ analysis = ZeroAnalysis
    /\ priorities = <<>>
    /\ fixes = <<>>
    /\ response = [Analysis |-> ZeroAnalysis, Priorities |-> <<>>,
                   RemediationPackage |-> ZeroPackage, StepResults |-> <<>>]
    /\ ret = [returned |-> FALSE, isNil |-> TRUE, err |-> NoErr]
    /\ deadline = [elapsed |-> FALSE, returned |-> 0]

\* a.llm.CallLLM(ctx, prompt, systemPrompt) is entered
IssueCall(step, p) ==
    /\ calls' = Append(calls, step)
    /\ inflight' = inflight + 1
    /\ prompt' = p
    /\ pc' = step

\* lines 33-52: build the response shell, enter step 1 and its model call
ProcessScanStart ==
    /\ pc = "start"
    /\ IssueCall(StepAnalyze, [step |-> StepAnalyze, trivyJSON |-> TrivyJSON])
    /\ UNCHANGED <<outcomes, lastResp, exchanges, analysis, priorities, fixes,
                   response, ret, deadline>>
    /\ UNCHANGED <<retryVars, cleanVars, handlerVars, concVars>>

(***************************************************************************)
(* What the model provider may answer to each step                         *)
(***************************************************************************)
Responses(zero, container, values) ==
    {Resp(TRUE, "none", zero)}
    \cup {Resp(FALSE, k, zero) :
            k \in (ValuelessKinds \cup {"obj", "arr"}) \ {container}}
    \cup {Resp(FALSE, container, v) : v \in values}

AnalyzeResponses == Responses(ZeroAnalysis, "obj", SecurityAnalysis)
PrioritizeResponses == Responses(<<>>, "arr", SeqsUpTo(Priority, MaxPrios))
GenerateFixesResponses == Responses(<<>>, "arr", SeqsUpTo(Fix, MaxFixes))
CreatePackageResponses == Responses(ZeroPackage, "obj", RemediationPackage)

Arrivals_IgnoreCtx(answers, elapsed) == answers

\* agent_client.go lines 68, 84-87: the request carries ctx, so once the
\* deadline has passed httpClient.Do returns an error, for a call under way
\* as for one made afterwards.
Arrivals(answers, elapsed) ==
    IF elapsed THEN {a \in answers : a.err} ELSE answers

(***************************************************************************)
(* The four step functions, from the model's answer to (value, err)        *)
(***************************************************************************)
StepOk(val) == [err |-> FALSE, cause |-> "", val |-> val]
StepErr(cause, zero) == [err |-> TRUE, cause |-> cause, val |-> zero]

analyzeVulnerabilities(resp) ==
    IF resp.err THEN StepErr("LLM call failed", ZeroAnalysis)
    ELSE LET u == UnmarshalStruct(resp.kind, resp.val, ZeroAnalysis)
         IN IF u.ok THEN StepOk(u.val)
            ELSE StepErr("failed to parse analysis response", ZeroAnalysis)

prioritizeVulnerabilities_NoParseCheck(resp) ==
    IF resp.err THEN StepErr("LLM call failed", <<>>)
    ELSE StepOk(UnmarshalSlice(resp.kind, resp.val).val)

prioritizeVulnerabilities(resp) ==
    IF resp.err THEN StepErr("LLM call failed", <<>>)
    ELSE LET u == UnmarshalSlice(resp.kind, resp.val)
         IN IF u.ok THEN StepOk(u.val)
            ELSE StepErr("failed to parse priorities response", <<>>)

generateFixes_FirstFixOnly(resp) ==
    IF resp.err THEN StepErr("LLM call failed", <<>>)
    ELSE LET u == UnmarshalSlice(resp.kind, resp.val)
         IN IF u.ok THEN StepOk(IF u.val = <<>> THEN <<>> ELSE <<Head(u.val)>>)
            ELSE StepErr("failed to parse fixes response", <<>>)

generateFixes(resp) ==
    IF resp.err THEN StepErr("LLM call failed", <<>>)
    ELSE LET u == UnmarshalSlice(resp.kind, resp.val)
         IN IF u.ok THEN StepOk(u.val)
            ELSE StepErr("failed to parse fixes response", <<>>)

createRemediationPackage(resp, fixList) ==
    IF resp.err THEN StepErr("LLM call failed", ZeroPackage)
    ELSE LET u == UnmarshalStruct(resp.kind, resp.val, ZeroPackage)
         IN IF u.ok THEN StepOk(PackageOf(u.val, fixList))
            ELSE StepErr("failed to parse package response", ZeroPackage)

ErrCheck_Ignored(err) == FALSE

\* if err != nil, after each step of ProcessScan
ErrCheck(err) == err

\* The model call of a step function has returned resp and the step function
\* has returned r to ProcessScan.
CallReturned(resp, r) ==
    /\ lastResp' = resp
    /\ exchanges' = Append(exchanges, [prompt |-> prompt, resp |-> resp])
    /\ inflight' = inflight - 1
    /\ outcomes' = Append(outcomes,
          IF resp.err THEN "llm_error" ELSE IF r.err THEN "parse_error" ELSE "ok")
    /\ UNCHANGED <<calls, prompt, deadline>>

ReturnError_PartialResponse(step, r) ==
    /\ pc' = "failed"
    /\ ret' = [returned |-> TRUE, isNil |-> FALSE,
               err |-> StepError(ErrName[step], r.cause)]
    /\ UNCHANGED <<analysis, priorities, fixes, response>>

\* return nil, fmt.Errorf("<step> step failed: %w", err)
ReturnError(step, r) ==
    /\ pc' = "failed"
    /\ ret' = [returned |-> TRUE, isNil |-> TRUE,
               err |-> StepError(ErrName[step], r.cause)]
    /\ UNCHANGED <<analysis, priorities, fixes, response>>

\* lines 52-57
AnalyzeReturn ==
    /\ pc = StepAnalyze
    /\ \E resp \in Arrivals(AnalyzeResponses, deadline.elapsed) :
         LET r == analyzeVulnerabilities(resp) IN
         /\ CallReturned(resp, r)
         /\ IF ErrCheck(r.err)
            THEN ReturnError(StepAnalyze, r)
            ELSE /\ pc' = "analyzed"
                 /\ analysis' = r.val
                 /\ response' = [response EXCEPT
                        !.Analysis = r.val,
                        !.StepResults = (StepAnalyze :> r.val) @@ @]
                 /\ UNCHANGED <<priorities, fixes, ret>>
    /\ UNCHANGED <<retryVars, cleanVars, handlerVars, concVars>>

PrioritizeCall_EmbedsAnalysis ==
    /\ pc = "analyzed"
    /\ IssueCall(StepPrioritize,
          [step |-> StepPrioritize, vulnData |-> analysis.Vulnerabilities,
           totalVulnerabilities |-> analysis.TotalVulnerabilities,
           riskScore |-> analysis.RiskScore])
    /\ UNCHANGED <<outcomes, lastResp, exchanges, analysis, priorities, fixes,
                   response, ret, deadline>>
    /\ UNCHANGED <<retryVars, cleanVars, handlerVars, concVars>>

\* lines 60, 146-176: enter step 2 and its model call
PrioritizeCall ==
    /\ pc = "analyzed"
    /\ IssueCall(StepPrioritize,
          [step |-> StepPrioritize, vulnData |-> analysis.Vulnerabilities])
    /\ UNCHANGED <<outcomes, lastResp, exchanges, analysis, priorities, fixes,
                   response, ret, deadline>>
    /\ UNCHANGED <<retryVars, cleanVars, handlerVars, concVars>>

PrioritizeReturn_FiltersAnalysisInPlace ==
    /\ pc = StepPrioritize
    /\ \E resp \in Arrivals(PrioritizeResponses, deadline.elapsed) :
         LET r == prioritizeVulnerabilities(resp)
             kept == HighPriorityVulns(analysis.Vulnerabilities, r.val,
                                       PriorityThreshold)
         IN
         /\ CallReturned(resp, r)
         /\ IF ErrCheck(r.err)
            THEN ReturnError(StepPrioritize, r)
            ELSE /\ pc' = "prioritized"
                 /\ priorities' = r.val
                 /\ analysis' = [analysis EXCEPT !.Vulnerabilities = kept]
                 /\ response' = [response EXCEPT
                        !.Analysis.Vulnerabilities = kept,
                        !.Priorities = r.val,
                        !.StepResults = (StepPrioritize :> r.val) @@ @]
                 /\ UNCHANGED <<fixes, ret>>
    /\ UNCHANGED <<retryVars, cleanVars, handlerVars, concVars>>

\* lines 60-65
PrioritizeReturn ==
    /\ pc = StepPrioritize
    /\ \E resp \in Arrivals(PrioritizeResponses, deadline.elapsed) :
         LET r == prioritizeVulnerabilities(resp) IN
         /\ CallReturned(resp, r)
         /\ IF ErrCheck(r.err)
            THEN ReturnError(StepPrioritize, r)
            ELSE /\ pc' = "prioritized"
                 /\ priorities' = r.val
                 /\ response' = [response EXCEPT
                        !.Priorities = r.val,
                        !.StepResults = (StepPrioritize :> r.val) @@ @]
                 /\ UNCHANGED <<analysis, fixes, ret>>
    /\ UNCHANGED <<retryVars, cleanVars, handlerVars, concVars>>

GenerateFixesCall_SkipWhenEmpty ==
    /\ pc = "prioritized"
    /\ IF HighPriorityVulns(analysis.Vulnerabilities, priorities,
                            PriorityThreshold) = <<>>
       THEN /\ pc' = "generated"
            /\ fixes' = <<>>
            /\ response' = [response EXCEPT
                   !.StepResults = (StepGenerateFixes :> <<>>) @@ @]
            /\ UNCHANGED <<calls, inflight, prompt, outcomes, lastResp, exchanges,
                           analysis, priorities, ret, deadline>>
       ELSE /\ IssueCall(StepGenerateFixes,
                  [step |-> StepGenerateFixes,
                   targetType |-> TargetType,
                   vulnData |-> HighPriorityVulns(analysis.Vulnerabilities,
                                                  priorities, PriorityThreshold),
                   priorityData |-> priorities])
            /\ UNCHANGED <<outcomes, lastResp, exchanges, analysis, priorities,
                           fixes, response, ret, deadline>>
    /\ UNCHANGED <<retryVars, cleanVars, handlerVars, concVars>>

\* lines 68, 190-240: enter step 3, filter, and enter its model call
GenerateFixesCall ==
    /\ pc = "prioritized"
    /\ IssueCall(StepGenerateFixes,
          [step |-> StepGenerateFixes,
           targetType |-> TargetType,
           vulnData |-> HighPriorityVulns(analysis.Vulnerabilities, priorities,
                                          PriorityThreshold),
           priorityData |-> priorities])
    /\ UNCHANGED <<outcomes, lastResp, exchanges, analysis, priorities, fixes,
                   response, ret, deadline>>
    /\ UNCHANGED <<retryVars, cleanVars, handlerVars, concVars>>

GenerateFixesReturn_NotRecorded ==
    /\ pc = StepGenerateFixes
    /\ \E resp \in Arrivals(GenerateFixesResponses, deadline.elapsed) :
         LET r == generateFixes(resp) IN
         /\ CallReturned(resp, r)
         /\ IF ErrCheck(r.err)
            THEN ReturnError(StepGenerateFixes, r)
            ELSE /\ pc' = "generated"
                 /\ fixes' = r.val
                 /\ UNCHANGED <<analysis, priorities, response, ret>>
    /\ UNCHANGED <<retryVars, cleanVars, handlerVars, concVars>>

\* lines 68-72
GenerateFixesReturn ==
    /\ pc = StepGenerateFixes
    /\ \E resp \in Arrivals(GenerateFixesResponses, deadline.elapsed) :
         LET r == generateFixes(resp) IN
         /\ CallReturned(resp, r)
         /\ IF ErrCheck(r.err)
            THEN ReturnError(StepGenerateFixes, r)
            ELSE /\ pc' = "generated"
                 /\ fixes' = r.val
                 /\ response' = [response EXCEPT
                        !.StepResults = (StepGenerateFixes :> r.val) @@ @]
                 /\ UNCHANGED <<analysis, priorities, ret>>
    /\ UNCHANGED <<retryVars, cleanVars, handlerVars, concVars>>

\* lines 75, 254-277: enter step 4 and its model call
CreatePackageCall ==
    /\ pc = "generated"
    /\ IssueCall(StepCreatePackage,
          [step |-> StepCreatePackage, target |-> Target,
           targetType |-> TargetType, riskScore |-> analysis.RiskScore,
           fixData |-> fixes])
    /\ UNCHANGED <<outcomes, lastResp, exchanges, analysis, priorities, fixes,
                   response, ret, deadline>>
    /\ UNCHANGED <<retryVars, cleanVars, handlerVars, concVars>>

\* lines 75-91
CreatePackageReturn ==
    /\ pc = StepCreatePackage
    /\ \E resp \in Arrivals(CreatePackageResponses, deadline.elapsed) :
         LET r == createRemediationPackage(resp, fixes) IN
         /\ CallReturned(resp, r)
         /\ IF ErrCheck(r.err)
            THEN ReturnError(StepCreatePackage, r)
            ELSE /\ pc' = "done"
                 /\ response' = [response EXCEPT
                        !.RemediationPackage = r.val,
                        !.StepResults = (StepCreatePackage :> r.val) @@ @]
                 /\ ret' = [returned |-> TRUE, isNil |-> FALSE, err |-> NoErr]
                 /\ UNCHANGED <<analysis, priorities, fixes>>
    /\ UNCHANGED <<retryVars, cleanVars, handlerVars, concVars>>

\* handlers.go line 96: the deadline of the run's context passes while the
\* run is under way
DeadlineElapses ==
    /\ pc \notin {"idle", "done", "failed"}
    /\ ~deadline.elapsed
    /\ deadline' = [elapsed |-> TRUE, returned |-> Len(outcomes)]
    /\ UNCHANGED <<pc, calls, outcomes, inflight, prompt, lastResp, exchanges,
                   analysis, priorities, fixes, response, ret>>
    /\ UNCHANGED <<retryVars, cleanVars, handlerVars, concVars>>

AgentNext ==
    \/ DeadlineElapses
    \/ ProcessScanStart
    \/ AnalyzeReturn
    \/ PrioritizeCall
    \/ PrioritizeReturn
    \/ GenerateFixesCall
    \/ GenerateFixesReturn
    \/ CreatePackageCall
    \/ CreatePackageReturn

(***************************************************************************)
(* CallLLMWithRetry                                                        *)
(***************************************************************************)
\* Texts CallLLM may return
JSONTexts == {"{\"risk_score\": 85}", "null"}
OtherTexts == {"Sorry, I cannot help", ""}
Texts == JSONTexts \cup OtherTexts

ValidateJSONResponse_RejectsAll(text) == FALSE

ValidateJSONResponse_AcceptsAll(text) == TRUE

\* json.Unmarshal([]byte(response), &temp) == nil
ValidateJSONResponse(text) == text \in JSONTexts

Backoff_FromZero(a) == a

\* time.Duration(attempt+1) * time.Second, in seconds
Backoff(a) == a + 1

LoopCond_OneMore(a, max) == a <= max

\* attempt < maxRetries
LoopCond(a, max) == a < max

WaitCond_Always(a, max) == a < max

\* attempt < maxRetries-1
WaitCond(a, max) == a < max - 1

SelectCase_Sleep(done) == "timer"

\* The case the select takes: ctx.Done() is ready as soon as the context is
\* done, time.After(backoff) only once the whole backoff has elapsed.
SelectCase(done) == IF done THEN "ctx" ELSE "timer"

NilError == [kind |-> "nil", attempt |-> 0, wraps |-> "nil"]

\* Errors of one attempt (attempt numbered from 1)
TransportError(n) == [kind |-> "transport", attempt |-> n, wraps |-> "nil"]
CtxTransportError(n) == [kind |-> "transport", attempt |-> n, wraps |-> "ctx"]
InvalidJSONError(n) == [kind |-> "invalid JSON response", attempt |-> n, wraps |-> "nil"]

LastErrAfter_KeepFirst(old, e) == IF old = NilError THEN e ELSE old

\* lastErr = ... (lines 149 and 152): the error of the attempt just made
LastErrAfter(old, e) == e

\* What one CallLLM may yield: (text, nil) or ("", err).  A request made
\* with a context already done fails; one whose context ends while it is
\* under way fails or, if the answer was already in, succeeds.
CallResults(n, doneAtIssue, doneNow) ==
    IF doneAtIssue THEN {[text |-> "", err |-> CtxTransportError(n)]}
    ELSE {[text |-> t, err |-> NilError] : t \in Texts}
         \cup {[text |-> "", err |-> TransportError(n)]}
         \cup (IF doneNow THEN {[text |-> "", err |-> CtxTransportError(n)]} ELSE {})

RetryInit ==
    /\ r_pc = "start"
    /\ maxRetries \in -1..MaxAttempts
    /\ attempt = 0
    /\ lastErr = NilError
    /\ ctxDone = FALSE
    /\ r_log = <<>>
    /\ r_ret = [returned |-> FALSE, text |-> "", err |-> "nil", cause |-> NilError]

\* c.CallLLM(ctx, prompt, systemPrompt) is entered
RetryIssue(a, log) ==
    /\ r_pc' = "calling"
    /\ attempt' = a
    /\ r_log' = Append(log, [ev |-> "call", n |-> a + 1, doomed |-> ctxDone])

RetryReturn(text, err, cause) ==
    /\ r_pc' = "returned"
    /\ r_ret' = [returned |-> TRUE, text |-> text, err |-> err, cause |-> cause]

RetryLoop_ReturnsLastErr(a, log, le) ==
    IF LoopCond(a, maxRetries)
    THEN RetryIssue(a, log) /\ UNCHANGED r_ret
    ELSE /\ RetryReturn("", IF le = NilError THEN "nil"
                            ELSE "LLM call failed after attempts", le)
         /\ attempt' = a
         /\ r_log' = log

\* The loop test with loop variable a: the next attempt, or line 172
RetryLoop(a, log, le) ==
    IF LoopCond(a, maxRetries)
    THEN RetryIssue(a, log) /\ UNCHANGED r_ret
    ELSE /\ RetryReturn("", "LLM call failed after attempts", le)
         /\ attempt' = a
         /\ r_log' = log

\* lines 136-139: entry, first loop test
RetryEnter ==
    /\ r_pc = "start"
    /\ RetryLoop(0, r_log, lastErr)
    /\ UNCHANGED <<maxRetries, lastErr, ctxDone>>
    /\ UNCHANGED <<agentVars, cleanVars, handlerVars, concVars>>

\* lines 139-163: the call returns; success, or enter the select, or fall
\* out of the loop
RetryCallReturn ==
    /\ r_pc = "calling"
    /\ \E res \in CallResults(attempt + 1, r_log[Len(r_log)].doomed, ctxDone) :
        LET done == [ev |-> "result", n |-> attempt + 1, text |-> res.text,
                     err |-> res.err.kind]
            log  == Append(r_log, done)
        IN
        IF res.err = NilError /\ ValidateJSONResponse(res.text)
        THEN /\ RetryReturn(res.text, "nil", NilError)
             /\ r_log' = log
             /\ UNCHANGED <<attempt, lastErr>>
        ELSE LET le == LastErrAfter(lastErr,
                           IF res.err = NilError
                           THEN InvalidJSONError(attempt + 1) ELSE res.err)
             IN /\ lastErr' = le
                /\ IF WaitCond(attempt, maxRetries)
                   THEN /\ r_pc' = "waiting"
                        /\ r_log' = Append(log, [ev |-> "wait", d |-> Backoff(attempt)])
                        /\ UNCHANGED <<attempt, r_ret>>
                   ELSE RetryLoop(attempt + 1, log, le)
    /\ UNCHANGED <<maxRetries, ctxDone>>
    /\ UNCHANGED <<agentVars, cleanVars, handlerVars, concVars>>

RetryWaitElapsed_NoTimerCase ==
    /\ r_pc = "waiting"
    /\ SelectCase(ctxDone) = "timer"
    /\ UNCHANGED <<r_pc, attempt, r_log, r_ret>>
    /\ UNCHANGED <<maxRetries, lastErr, ctxDone>>
    /\ UNCHANGED <<agentVars, cleanVars, handlerVars, concVars>>

\* lines 166-167, 138-139: the backoff elapsed; continue with the next attempt
RetryWaitElapsed ==
    /\ r_pc = "waiting"
    /\ SelectCase(ctxDone) = "timer"
    /\ RetryLoop(attempt + 1, Append(r_log, [ev |-> "waited"]), lastErr)
    /\ UNCHANGED <<maxRetries, lastErr, ctxDone>>
    /\ UNCHANGED <<agentVars, cleanVars, handlerVars, concVars>>

\* lines 164-165: the context ended during the backoff
RetryWaitCancelled ==
    /\ r_pc = "waiting"
    /\ SelectCase(ctxDone) = "ctx"
    /\ RetryReturn("", "ctx", NilError)
    /\ r_log' = Append(r_log, [ev |-> "interrupted"])
    /\ UNCHANGED <<maxRetries, attempt, lastErr, ctxDone>>
    /\ UNCHANGED <<agentVars, cleanVars, handlerVars, concVars>>

\* The caller cancels the context, or its deadline passes
CtxCancel ==
    /\ ~ctxDone
    /\ r_pc # "returned"
    /\ ctxDone' = TRUE
    /\ UNCHANGED <<r_pc, maxRetries, attempt, lastErr, r_log, r_ret>>
    /\ UNCHANGED <<agentVars, cleanVars, handlerVars, concVars>>

RetryNext ==
    \/ RetryEnter
    \/ RetryCallReturn
    \/ RetryWaitElapsed
    \/ RetryWaitCancelled
    \/ CtxCancel

(***************************************************************************)
(* CallLLM: the request, then the clean-up of the model content (lines     *)
(* 103-119).                                                               *)
(* A text is a sequence of symbols.  The fence marker and the label        *)
(* json are one symbol each, so the texts covered are those in which       *)
(* backticks come in threes and the letters of json come together; on      *)
(* these the string functions below act as Go's do on the characters.      *)
(***************************************************************************)
\* the fence marker: three backticks
FENCE == "<fence>"
JSON == "json"
NL == "\n"
SP == " "
CH == "{"

Symbols == {FENCE, NL, SP, CH}
Whitespace == {NL, SP}

IsSpace(c) == c \in Whitespace

\* strings.TrimSpace
TrimSpace(str) ==
    LET keep == {i \in 1..Len(str) : ~IsSpace(str[i])}
    IN IF keep = {} THEN <<>>
       ELSE LET lo == CHOOSE i \in keep : \A j \in keep : i <= j
                hi == CHOOSE i \in keep : \A j \in keep : j <= i
            IN SubSeq(str, lo, hi)

\* strings.HasPrefix, strings.HasSuffix
HasPrefix(str, p) == Len(str) >= Len(p) /\ SubSeq(str, 1, Len(p)) = p
HasSuffix(str, p) ==
    Len(str) >= Len(p) /\ SubSeq(str, Len(str) - Len(p) + 1, Len(str)) = p

\* strings.TrimPrefix, strings.TrimSuffix
TrimPrefix(str, p) ==
    IF HasPrefix(str, p) THEN SubSeq(str, Len(p) + 1, Len(str)) ELSE str
TrimSuffix(str, p) ==
    IF HasSuffix(str, p) THEN SubSeq(str, 1, Len(str) - Len(p)) ELSE str

\* strings.Split(str, "\n"): always at least one line
RECURSIVE Split(_)
Split(str) ==
    LET nls == {i \in 1..Len(str) : str[i] = NL}
    IN IF nls = {} THEN <<str>>
       ELSE LET first == CHOOSE i \in nls : \A j \in nls : i <= j
            IN <<SubSeq(str, 1, first - 1)>>
               \o Split(SubSeq(str, first + 1, Len(str)))

\* strings.Join(lines, "\n")
RECURSIVE Join(_)
Join(lines) ==
    IF lines = <<>> THEN <<>>
    ELSE IF Len(lines) = 1 THEN lines[1]
    ELSE lines[1] \o <<NL>> \o Join(Tail(lines))

StripJSONFence_KeepClosing(content) ==
    IF HasPrefix(content, <<FENCE, JSON>>)
    THEN TrimSpace(TrimPrefix(content, <<FENCE, JSON>>))
    ELSE content

\* lines 109-113
StripJSONFence(content) ==
    IF HasPrefix(content, <<FENCE, JSON>>)
    THEN TrimSpace(TrimSuffix(TrimPrefix(content, <<FENCE, JSON>>), <<FENCE>>))
    ELSE content

StripFence_KeepsLastLine(content) ==
    IF HasPrefix(content, <<FENCE>>)
    THEN LET lines == Split(content)
         IN IF Len(lines) > 1
            THEN Join(SubSeq(lines, 2, Len(lines)))
            ELSE content
    ELSE content

\* lines 114-119
StripFence(content) ==
    IF HasPrefix(content, <<FENCE>>)
    THEN LET lines == Split(content)
         IN IF Len(lines) > 1
            THEN Join(SubSeq(lines, 2, Len(lines) - 1))
            ELSE content
    ELSE content

\* lines 103-119: from choices[0].message.content to the text returned
CleanContent(content) == StripFence(StripJSONFence(TrimSpace(content)))

\* The model content a choice of parts stands for
Content(in) ==
    CASE in.shape = "json_fence" ->
            in.pre \o <<FENCE, JSON>> \o in.inner \o <<FENCE>> \o in.post
      [] in.shape = "fence" ->
            in.pre \o <<FENCE, NL>> \o in.inner \o <<NL, FENCE>> \o in.post
      [] in.shape = "bare" -> in.pre \o in.inner \o in.post

\* How the one request of an invocation can end: httpClient.Do fails, the
\* status is not 200, the body does not decode as a ChatResponse, the
\* response has no choices, or it has a first choice with a content.
HTTPFailures == {"send_error", "bad_status", "bad_envelope", "no_choices"}

CallLLMResult_StatusUnchecked(in) ==
    CASE in.http = "send_error"   -> [text |-> <<>>, err |-> "failed to send request"]
      [] in.http = "bad_envelope" -> [text |-> <<>>, err |-> "failed to decode response"]
      [] in.http = "no_choices"   ->
            [text |-> <<>>, err |-> "no response choices returned from LLM"]
      [] OTHER -> [text |-> CleanContent(Content(in)), err |-> "nil"]

\* lines 84-125: what CallLLM returns for each ending of the request
CallLLMResult(in) ==
    CASE in.http = "send_error"   -> [text |-> <<>>, err |-> "failed to send request"]
      [] in.http = "bad_status"   -> [text |-> <<>>, err |-> "unexpected status code"]
      [] in.http = "bad_envelope" -> [text |-> <<>>, err |-> "failed to decode response"]
      [] in.http = "no_choices"   ->
            [text |-> <<>>, err |-> "no response choices returned from LLM"]
      [] in.http = "ok" -> [text |-> CleanContent(Content(in)), err |-> "nil"]

CleanInit ==
    /\ c_pc = "in"
    /\ c_in \in [http  : {"ok"},
                 shape : {"json_fence", "fence", "bare"},
                 pre   : SeqsUpTo(Whitespace, 1),
                 inner : SeqsUpTo(Symbols, MaxInner),
                 post  : SeqsUpTo(Whitespace, 1)]
            \cup [http  : HTTPFailures,
                  shape : {"bare"},
                  pre   : {<<>>},
                  inner : {<<>>, <<CH>>},
                  post  : {<<>>}]
    /\ c_out = <<>>
    /\ c_err = "nil"
    /\ c_requests = 0

\* lines 48-126: one httpClient.Do, then the return
CallLLMReturn ==
    /\ c_pc = "in"
    /\ c_pc' = "returned"
    /\ c_requests' = c_requests + 1
    /\ c_out' = CallLLMResult(c_in).text
    /\ c_err' = CallLLMResult(c_in).err
    /\ UNCHANGED c_in
    /\ UNCHANGED <<agentVars, retryVars, handlerVars, concVars>>

CleanNext == CallLLMReturn

(***************************************************************************)
(* The HTTP handlers (internal/api): one POST request to /api/v1/scan or   *)
(* to /api/v1/agent/scan.  The scanner and the pipeline run are seen from  *)
(* the handler: each returns a value or an error.                          *)
(***************************************************************************)
EndpointScan == "/api/v1/scan"
EndpointAgentScan == "/api/v1/agent/scan"

\* handlers.go line 96: the deadline given to every pipeline run, in minutes
AgentTimeoutMinutes == 5

\* handlers.go lines 44-49: the configuration of the process-wide agent
DefaultConfig ==
    [PriorityThreshold |-> PriorityThreshold, TimeoutMinutes |-> AgentTimeoutMinutes]

\* The agent_config member of a request body: absent, or an object with
\* a priority threshold and a timeout (minutes).
NoAgentConfig == [present |-> FALSE, PriorityThreshold |-> 0, TimeoutMinutes |-> 0]
RequestConfigs ==
    {NoAgentConfig,
     [present |-> TRUE, PriorityThreshold |-> 1, TimeoutMinutes |-> 1],
     [present |-> TRUE, PriorityThreshold |-> 3, TimeoutMinutes |-> 5]}

\* The requests: the body is JSON for a ScanRequest or it is not; the
\* use_agent member is true, false or absent.
Requests ==
    [endpoint    : {EndpointScan, EndpointAgentScan},
     wellFormed  : BOOLEAN,
     target_type : {"", "file", "image", "repo"},
     target      : {"", "nginx:latest"},
     summarize   : BOOLEAN,
     use_agent   : {"true", "false", "absent"},
     agent_config : RequestConfigs,
     cli         : BOOLEAN]

\* handlers.go lines 17-24: the ScanRequest a body decodes to
ZeroScanRequest ==
    [TargetType |-> "", Target |-> "", Summarize |-> FALSE, UseAgent |-> FALSE,
     AgentConfig |-> NoAgentConfig]
Decode(req) ==
    [TargetType |-> req.target_type, Target |-> req.target,
     Summarize |-> req.summarize, UseAgent |-> (req.use_agent = "true"),
     AgentConfig |-> req.agent_config]

\* c.ShouldBindJSON decodes what is left of the request body: it fails on
\* a body that is not JSON for the struct and on a body already read.
CanBind(req, bodyRead) == req.wellFormed /\ ~bodyRead

NoRun == [ran |-> FALSE, PriorityThreshold |-> 0, TimeoutMinutes |-> 0]
NoReply == [status |-> 0, error |-> "", format |-> "", agent_result |-> FALSE,
            summary |-> FALSE, scan_results |-> FALSE]
Reply(status, error, format, agent, summ, scan) ==
    [status |-> status, error |-> error, format |-> format,
     agent_result |-> agent, summary |-> summ, scan_results |-> scan]
NoModelCall == [called |-> "none", outcome |-> "none"]
BadRequest(error) == Reply(400, error, "json", FALSE, FALSE, FALSE)

HandlerIdle ==
    /\ h_pc = "idle"
    /\ h_req = [endpoint |-> EndpointScan, wellFormed |-> FALSE, target_type |-> "",
                target |-> "", summarize |-> FALSE, use_agent |-> "absent",
                agent_config |-> NoAgentConfig, cli |-> FALSE]
    /\ h_bodyRead = FALSE
    /\ h_forced = FALSE
    /\ h_bound = ZeroScanRequest
    /\ h_scan = "none"
    /\ h_run = NoRun
    /\ h_resp = NoReply
    /\ h_llm = NoModelCall

\* routes.go lines 24, 27: the router hands the request to its handler
HandlerInit ==
    /\ h_pc = "received"
    /\ h_req \in Requests
    /\ h_bodyRead = FALSE
    /\ h_forced = FALSE
    /\ h_bound = ZeroScanRequest
    /\ h_scan = "none"
    /\ h_run = NoRun
    /\ h_resp = NoReply
    /\ h_llm = NoModelCall

\* The configuration a pipeline run works with: the agent's own
\* (security_agent.go line 208 reads a.config.PriorityThreshold), whatever
\* the bound request carries.
RunConfig(bound) == DefaultConfig

\* routes.go lines 37-53: AgentScanHandler binds the body into its own
\* ScanRequest, sets UseAgent on it and calls ScanHandler with the context.
AgentScanHandler ==
    /\ h_pc = "received"
    /\ h_req.endpoint = EndpointAgentScan
    /\ IF CanBind(h_req, h_bodyRead)
       THEN /\ h_bodyRead' = TRUE
            /\ h_forced' = TRUE
            /\ h_pc' = "in_ScanHandler"
            /\ UNCHANGED h_resp
       ELSE /\ h_resp' = BadRequest("Invalid request format")
            /\ h_pc' = "responded"
            /\ UNCHANGED <<h_bodyRead, h_forced>>
    /\ UNCHANGED <<h_req, h_bound, h_scan, h_run, h_llm>>
    /\ UNCHANGED <<agentVars, retryVars, cleanVars, concVars>>

\* handlers.go lines 55-64: ScanHandler binds the body into a new ScanRequest
ScanHandlerBind ==
    /\ \/ h_pc = "received" /\ h_req.endpoint = EndpointScan
       \/ h_pc = "in_ScanHandler"
    /\ IF CanBind(h_req, h_bodyRead)
       THEN /\ h_bound' = Decode(h_req)
            /\ h_bodyRead' = TRUE
            /\ h_pc' = "bound"
            /\ UNCHANGED h_resp
       ELSE /\ h_resp' = BadRequest("Invalid request format")
            /\ h_pc' = "responded"
            /\ UNCHANGED <<h_bound, h_bodyRead>>
    /\ UNCHANGED <<h_req, h_forced, h_scan, h_run, h_llm>>
    /\ UNCHANGED <<agentVars, retryVars, cleanVars, concVars>>

\* handlers.go lines 67-72: the required fields
ScanHandlerValidate ==
    /\ h_pc = "bound"
    /\ IF h_bound.TargetType = "" \/ h_bound.Target = ""
       THEN /\ h_resp' = BadRequest("Invalid request. 'target_type' and 'target' are required.")
            /\ h_pc' = "responded"
       ELSE /\ h_pc' = "validated"
            /\ UNCHANGED h_resp
    /\ UNCHANGED <<h_req, h_bodyRead, h_forced, h_bound, h_scan, h_run, h_llm>>
    /\ UNCHANGED <<agentVars, retryVars, cleanVars, concVars>>

ScanSucceeds_AnyTargetType(ok, targetType) == ok

\* scanner.go lines 20-35: a target type other than file and image is an
\* error; ok is whether the trivy command ran to a zero exit in time
ScanSucceeds(ok, targetType) == ok /\ targetType \in {"file", "image"}

\* handlers.go lines 75-88 and scanner.go lines 15-40: the scan
RunScan ==
    /\ h_pc = "validated"
    /\ \E ok \in BOOLEAN :
          IF ScanSucceeds(ok, h_bound.TargetType)
          THEN /\ h_scan' = "ok"
               /\ h_pc' = "scanned"
               /\ UNCHANGED h_resp
          ELSE /\ h_scan' = "error"
               /\ h_resp' = Reply(500, "Scan failed", "json", FALSE, FALSE, FALSE)
               /\ h_pc' = "responded"
    /\ UNCHANGED <<h_req, h_bodyRead, h_forced, h_bound, h_run, h_llm>>
    /\ UNCHANGED <<agentVars, retryVars, cleanVars, concVars>>

ScanHandlerDispatch_SummarizeFirst ==
    /\ h_pc = "scanned"
    /\ IF h_bound.Summarize
       THEN /\ h_pc' = "in_Summarize"
            /\ h_llm' = [called |-> "summarize", outcome |-> "pending"]
            /\ UNCHANGED <<h_run, h_resp>>
       ELSE IF h_bound.UseAgent
       THEN /\ h_run' = [ran |-> TRUE,
                         PriorityThreshold |-> RunConfig(h_bound).PriorityThreshold,
                         TimeoutMinutes |-> RunConfig(h_bound).TimeoutMinutes]
            /\ h_pc' = "in_ProcessScan"
            /\ h_llm' = [called |-> "pipeline", outcome |-> "pending"]
            /\ UNCHANGED h_resp
       ELSE /\ h_resp' = Reply(200, "", "json", FALSE, FALSE, TRUE)
            /\ h_pc' = "responded"
            /\ UNCHANGED <<h_run, h_llm>>
    /\ UNCHANGED <<h_req, h_bodyRead, h_forced, h_bound, h_scan>>
    /\ UNCHANGED <<agentVars, retryVars, cleanVars, concVars>>

\* handlers.go lines 95-104, 128-129, 147-161: the branch on the bound
\* request: the pipeline, the legacy summary, or the scan results alone.
ScanHandlerDispatch ==
    /\ h_pc = "scanned"
    /\ IF h_bound.UseAgent
       THEN /\ h_run' = [ran |-> TRUE,
                         PriorityThreshold |-> RunConfig(h_bound).PriorityThreshold,
                         TimeoutMinutes |-> RunConfig(h_bound).TimeoutMinutes]
            /\ h_pc' = "in_ProcessScan"
            /\ h_llm' = [called |-> "pipeline", outcome |-> "pending"]
            /\ UNCHANGED h_resp
       ELSE IF h_bound.Summarize
       THEN /\ h_pc' = "in_Summarize"
            /\ h_llm' = [called |-> "summarize", outcome |-> "pending"]
            /\ UNCHANGED <<h_run, h_resp>>
       ELSE /\ h_resp' = Reply(200, "", "json", FALSE, FALSE, TRUE)
            /\ h_pc' = "responded"
            /\ UNCHANGED <<h_run, h_llm>>
    /\ UNCHANGED <<h_req, h_bodyRead, h_forced, h_bound, h_scan>>
    /\ UNCHANGED <<agentVars, retryVars, cleanVars, concVars>>

AgentReply_ErrorSwallowed(ok, cli) ==
    IF cli
    THEN Reply(200, "", "text", ok, FALSE, FALSE)
    ELSE Reply(200, "", "json", ok, FALSE, TRUE)

\* handlers.go lines 105-119, 147-161: the reply after ProcessScan returned
AgentReply(ok, cli) ==
    IF ~ok
    THEN Reply(500, "Agent processing failed", "json", FALSE, FALSE, TRUE)
    ELSE IF cli
    THEN Reply(200, "", "text", TRUE, FALSE, FALSE)
    ELSE Reply(200, "", "json", TRUE, FALSE, TRUE)

\* handlers.go lines 104-119, 147-161: ProcessScan returned
ProcessScanReturned ==
    /\ h_pc = "in_ProcessScan"
    /\ \E ok \in BOOLEAN :
          /\ h_resp' = AgentReply(ok, h_req.cli)
          /\ h_llm' = [h_llm EXCEPT !.outcome = IF ok THEN "ok" ELSE "error"]
    /\ h_pc' = "responded"
    /\ UNCHANGED <<h_req, h_bodyRead, h_forced, h_bound, h_scan, h_run>>
    /\ UNCHANGED <<agentVars, retryVars, cleanVars, concVars>>

\* handlers.go lines 130-144, 147-161: llm.Summarize returned; an empty
\* summary is sent as JSON also to a command-line client
SummarizeReturned ==
    /\ h_pc = "in_Summarize"
    /\ \E out \in {"error", "empty", "text"} :
          /\ h_resp' = IF out = "error"
                       THEN Reply(500, "Summarization failed", "json", FALSE, FALSE, FALSE)
                       ELSE IF h_req.cli /\ out = "text"
                       THEN Reply(200, "", "text", FALSE, TRUE, FALSE)
                       ELSE Reply(200, "", "json", FALSE, out = "text", TRUE)
          /\ h_llm' = [h_llm EXCEPT !.outcome = IF out = "error" THEN "error" ELSE "ok"]
    /\ h_pc' = "responded"
    /\ UNCHANGED <<h_req, h_bodyRead, h_forced, h_bound, h_scan, h_run>>
    /\ UNCHANGED <<agentVars, retryVars, cleanVars, concVars>>

HandlerNext ==
    \/ AgentScanHandler
    \/ ScanHandlerBind
    \/ ScanHandlerValidate
    \/ RunScan
    \/ ScanHandlerDispatch
    \/ ProcessScanReturned
    \/ SummarizeReturned

(***************************************************************************)
(* Concurrent runs: the HTTP server runs ScanHandler on one goroutine per  *)
(* request, so ProcessScan runs of different requests interleave on the    *)
(* one SecurityAgent held in the package variable securityAgent.  A run    *)
(* is split at its blocking model calls, as above.                         *)
(***************************************************************************)
Runs == {"run-1", "run-2"}

\* security_agent.go lines 19-22 and handlers.go lines 44-51: the agent's
\* fields, set once at start-up
TheAgent == [llm |-> "AgentClient", config |-> [PriorityThreshold |-> PriorityThreshold]]

\* ProcessScan lines 43-49: what a run starts with
FreshLocals ==
    [analysis |-> ZeroAnalysis, priorities |-> <<>>, fixes |-> <<>>,
     response |-> [Analysis |-> ZeroAnalysis, Priorities |-> <<>>,
                   RemediationPackage |-> ZeroPackage, StepResults |-> <<>>]]

NotReturned == [returned |-> FALSE, isNil |-> TRUE, err |-> NoErr]

Locals_OnePerAgent(loc, run) == loc[CHOOSE q \in Runs : \A o \in Runs : q = "run-1"]

\* analysis, priorities, fixes and response are variables of the ProcessScan
\* invocation (lines 43, 52, 60, 68): a run reads its own
Locals(loc, run) == loc[run]

\* What the model provider answers to the runs: an error, or one of two
\* well-formed answers per step.
ConcAnswers(step) ==
    CASE step = StepAnalyze ->
            {Resp(TRUE, "none", ZeroAnalysis),
             Resp(FALSE, "obj", [TotalVulnerabilities |-> 1, RiskScore |-> 85,
                                 Vulnerabilities |-> <<[ID |-> "CVE-A"]>>]),
             Resp(FALSE, "obj", [TotalVulnerabilities |-> 2, RiskScore |-> 85,
                                 Vulnerabilities |-> <<[ID |-> "CVE-A"], [ID |-> "CVE-B"]>>])}
      [] step = StepPrioritize ->
            {Resp(TRUE, "none", <<>>),
             Resp(FALSE, "arr", <<[VulnerabilityID |-> "CVE-A", Priority |-> 3]>>),
             Resp(FALSE, "arr", <<[VulnerabilityID |-> "CVE-A", Priority |-> 4],
                                  [VulnerabilityID |-> "CVE-B", Priority |-> 3]>>)}
      [] step = StepGenerateFixes ->
            {Resp(TRUE, "none", <<>>),
             Resp(FALSE, "arr", <<[VulnerabilityID |-> "CVE-A"]>>),
             Resp(FALSE, "arr", <<[VulnerabilityID |-> "CVE-B"]>>)}
      [] step = StepCreatePackage ->
            {Resp(TRUE, "none", ZeroPackage),
             Resp(FALSE, "obj", [Fixes |-> <<>>,
                                 CommitMessage |-> "fix: resolve vulnerabilities",
                                 PRTitle |-> "Security fixes"])}

\* The prompt data of a step, from the locals of the run that makes the call
PromptOf(step, own, agent) ==
    CASE step = StepAnalyze -> [step |-> step, trivyJSON |-> TrivyJSON]
      [] step = StepPrioritize ->
            [step |-> step, vulnData |-> own.analysis.Vulnerabilities]
      [] step = StepGenerateFixes ->
            [step |-> step, targetType |-> TargetType,
             vulnData |-> HighPriorityVulns(own.analysis.Vulnerabilities,
                                            own.priorities,
                                            agent.config.PriorityThreshold),
             priorityData |-> own.priorities]
      [] step = StepCreatePackage ->
            [step |-> step, target |-> Target, targetType |-> TargetType,
             riskScore |-> own.analysis.RiskScore, fixData |-> own.fixes]

\* The step function of a step, applied to the answer
StepResult(step, resp, own) ==
    CASE step = StepAnalyze -> analyzeVulnerabilities(resp)
      [] step = StepPrioritize -> prioritizeVulnerabilities(resp)
      [] step = StepGenerateFixes -> generateFixes(resp)
      [] step = StepCreatePackage -> createRemediationPackage(resp, own.fixes)

\* ProcessScan lines 56-57, 64-65, 72, 79-80: the locals after a step that
\* returned val
LocalsAfter(step, own, val) ==
    CASE step = StepAnalyze ->
            [own EXCEPT !.analysis = val, !.response.Analysis = val,
                        !.response.StepResults = (step :> val) @@ @]
      [] step = StepPrioritize ->
            [own EXCEPT !.priorities = val, !.response.Priorities = val,
                        !.response.StepResults = (step :> val) @@ @]
      [] step = StepGenerateFixes ->
            [own EXCEPT !.fixes = val,
                        !.response.StepResults = (step :> val) @@ @]
      [] step = StepCreatePackage ->
            [own EXCEPT !.response.RemediationPackage = val,
                        !.response.StepResults = (step :> val) @@ @]

NextPosition(step) ==
    CASE step = StepAnalyze -> StepPrioritize
      [] step = StepPrioritize -> StepGenerateFixes
      [] step = StepGenerateFixes -> StepCreatePackage
      [] step = StepCreatePackage -> "done"

ConcIdle ==
    /\ t_agent = TheAgent
    /\ t_pc = [run \in Runs |-> "idle"]
    /\ t_loc = [run \in Runs |-> FreshLocals]
    /\ t_x = [run \in Runs |-> <<>>]
    /\ t_ret = [run \in Runs |-> NotReturned]

\* Both requests have reached ProcessScan and made the call of step 1
ConcInit ==
    /\ t_agent = TheAgent
    /\ t_pc = [run \in Runs |-> StepAnalyze]
    /\ t_loc = [run \in Runs |-> FreshLocals]
    /\ t_x = [run \in Runs |-> <<>>]
    /\ t_ret = [run \in Runs |-> NotReturned]

\* The model call of the step run is in returns: the step function returns,
\* and ProcessScan stores the result and goes on to the next step's call, or
\* returns.
ConcStepReturn(run, step) ==
    /\ \E resp \in ConcAnswers(step) :
         LET own == Locals(t_loc, run)
             r == StepResult(step, resp, own)
         IN
         /\ t_x' = [t_x EXCEPT ![run] =
                       Append(@, [prompt |-> PromptOf(step, own, t_agent),
                                  resp |-> resp])]
         /\ IF ErrCheck(r.err)
            THEN /\ t_pc' = [t_pc EXCEPT ![run] = "failed"]
                 /\ t_ret' = [t_ret EXCEPT ![run] =
                       [returned |-> TRUE, isNil |-> TRUE,
                        err |-> StepError(ErrName[step], r.cause)]]
                 /\ UNCHANGED t_loc
            ELSE /\ t_pc' = [t_pc EXCEPT ![run] = NextPosition(step)]
                 /\ t_loc' = [t_loc EXCEPT ![run] = LocalsAfter(step, own, r.val)]
                 /\ t_ret' = IF step = StepCreatePackage
                             THEN [t_ret EXCEPT ![run] =
                                     [returned |-> TRUE, isNil |-> FALSE, err |-> NoErr]]
                             ELSE t_ret
    /\ UNCHANGED t_agent
    /\ UNCHANGED <<agentVars, retryVars, cleanVars, handlerVars>>

ConcAnalyzeReturn ==
    \E run \in Runs :
        /\ t_pc[run] = StepAnalyze
        /\ ConcStepReturn(run, StepAnalyze)

ConcPrioritizeReturn ==
    \E run \in Runs :
        /\ t_pc[run] = StepPrioritize
        /\ ConcStepReturn(run, StepPrioritize)

ConcGenerateFixesReturn ==
    \E run \in Runs :
        /\ t_pc[run] = StepGenerateFixes
        /\ ConcStepReturn(run, StepGenerateFixes)

ConcCreatePackageReturn ==
    \E run \in Runs :
        /\ t_pc[run] = StepCreatePackage
        /\ ConcStepReturn(run, StepCreatePackage)


ConcNext ==
    \/ ConcAnalyzeReturn
    \/ ConcPrioritizeReturn
    \/ ConcGenerateFixesReturn
    \/ ConcCreatePackageReturn

(***************************************************************************)
(* Specifications                                                          *)
(***************************************************************************)
RetryIdle ==
    /\ r_pc = "idle"
    /\ maxRetries = 0
    /\ attempt = 0
    /\ lastErr = NilError
    /\ ctxDone = FALSE
    /\ r_log = <<>>
    /\ r_ret = [returned |-> FALSE, text |-> "", err |-> "nil", cause |-> NilError]

AgentIdle ==
    /\ pc = "idle"
    /\ calls = <<>>
    /\ outcomes = <<>>
    /\ inflight = 0
    /\ prompt = [step |-> "none"]
    /\ lastResp = NoResp
    /\ exchanges = <<>>
    /\ analysis = ZeroAnalysis
    /\ priorities = <<>>
    /\ fixes = <<>>
    /\ response = [Analysis |-> ZeroAnalysis, Priorities |-> <<>>,
                   RemediationPackage |-> ZeroPackage, StepResults |-> <<>>]
    /\ ret = [returned |-> FALSE, isNil |-> TRUE, err |-> NoErr]
    /\ deadline = [elapsed |-> FALSE, returned |-> 0]

CleanIdle ==
    /\ c_pc = "idle"
    /\ c_in = [http |-> "ok", shape |-> "bare", pre |-> <<>>, inner |-> <<>>,
               post |-> <<>>]
    /\ c_out = <<>>
    /\ c_err = "nil"
    /\ c_requests = 0

Init == AgentInit /\ RetryIdle /\ CleanIdle /\ HandlerIdle /\ ConcIdle
Next == AgentNext
Spec == Init /\ [][Next]_vars

InitRetry == AgentIdle /\ RetryInit /\ CleanIdle /\ HandlerIdle /\ ConcIdle
NextRetry == RetryNext
SpecRetry == InitRetry /\ [][NextRetry]_vars

InitClean == AgentIdle /\ RetryIdle /\ CleanInit /\ HandlerIdle /\ ConcIdle
NextClean == CleanNext
SpecClean == InitClean /\ [][NextClean]_vars

InitHTTP == AgentIdle /\ RetryIdle /\ CleanIdle /\ HandlerInit /\ ConcIdle
NextHTTP == HandlerNext
SpecHTTP == InitHTTP /\ [][NextHTTP]_vars

InitConc == AgentIdle /\ RetryIdle /\ CleanIdle /\ HandlerIdle /\ ConcInit
NextConc == ConcNext
SpecConc == InitConc /\ [][NextConc]_vars

\* The steps of ProcessScan itself and the returns of its model calls; the
\* deadline of the caller's context is not among them.
AgentProgress ==
    \/ ProcessScanStart
    \/ AnalyzeReturn
    \/ PrioritizeCall
    \/ PrioritizeReturn
    \/ GenerateFixesCall
    \/ GenerateFixesReturn
    \/ CreatePackageCall
    \/ CreatePackageReturn

\* The steps of CallLLMWithRetry itself, the returns of its model calls and
\* the two cases of its select; the cancellation of the caller's context is
\* not among them.
RetryProgress ==
    \/ RetryEnter
    \/ RetryCallReturn
    \/ RetryWaitElapsed
    \/ RetryWaitCancelled

\* One ProcessScan run, or one CallLLMWithRetry invocation, in which every
\* model call returns, every wait elapses or is cancelled, and the
\* goroutine is scheduled.
InitLive == Init \/ InitRetry
NextLive == AgentNext \/ RetryNext
SpecLive ==
    /\ InitLive
    /\ [][NextLive]_vars
    /\ WF_vars(AgentProgress)
    /\ WF_vars(RetryProgress)

(***************************************************************************)
(* Properties of ProcessScan (specification Spec)                          *)
(***************************************************************************)

\* C1: in every successful run the Fixes of the returned RemediationPackage
\* are, element for element and in order, the fix list step 3 returned,
\* whatever fixes value the model put in its step-4 answer.
C1_PackageFixesAreStepThreeFixes ==
    (ret.returned /\ ~ret.isNil) =>
        /\ response.RemediationPackage.Fixes = fixes
        /\ response.RemediationPackage.Fixes = response.StepResults[StepGenerateFixes]

\* A successful run in which the model echoed a fix list different from
\* the non-empty list of step 3.
C1_Witness ==
    /\ pc = "done"
    /\ ~ret.isNil
    /\ fixes # <<>>
    /\ lastResp.kind = "obj"
    /\ lastResp.val.Fixes # fixes

\* C2: the model call of step k is issued only after step k-1 returned a
\* successfully parsed result, the calls follow the order analyze,
\* prioritize, generate fixes, create package, and at most one model call
\* is under way at any time.
C2_StepsStrictlySequential ==
    /\ inflight \in {0, 1}
    /\ inflight = Len(calls) - Len(outcomes)
    /\ Len(calls) <= Len(StepOrder)
    /\ \A i \in 1..Len(calls) : calls[i] = StepOrder[i]
    /\ \A i \in 2..Len(calls) : outcomes[i - 1] = "ok"

\* The fourth call is under way.
C2_Witness ==
    /\ Len(calls) = 4
    /\ inflight = 1
    /\ pc = StepCreatePackage

\* C3: if any step fails (model call error or parse error) ProcessScan
\* returns nil and an error and no call of a later step is ever issued; a
\* response is returned only when all four steps succeeded.
C3_AllOrNothing ==
    /\ \A i \in 1..Len(outcomes) :
           outcomes[i] # "ok" =>
               /\ pc = "failed"
               /\ ret.returned /\ ret.isNil /\ ret.err # NoErr
               /\ Len(calls) = i
    /\ (ret.returned /\ ~ret.isNil) =>
           /\ ret.err = NoErr
           /\ Len(outcomes) = 4
           /\ \A i \in 1..4 : outcomes[i] = "ok"

\* Step 2 failed after step 1 had succeeded.
C3_Witness ==
    /\ pc = "failed"
    /\ Len(calls) = 2
    /\ outcomes = <<"ok", "parse_error">>
    /\ ret.isNil

\* C4 as stated: the vulnerabilities in the generateFixes prompt are exactly
\* those of the analysis, in order, whose id has some entry in the
\* priorities with rank <= PriorityThreshold.
C4_SomeEntryWithinThreshold ==
    prompt.step = StepGenerateFixes =>
        LET Keep(v) == \E i \in DOMAIN priorities :
                           /\ priorities[i].VulnerabilityID = v.ID
                           /\ priorities[i].Priority <= PriorityThreshold
        IN prompt.vulnData = SelectSeq(analysis.Vulnerabilities, Keep)

\* C4 (amended): the vulnerabilities in the generateFixes prompt are exactly
\* those of the analysis, in order, whose id has an entry in the priorities
\* and whose last such entry has rank <= PriorityThreshold.
C4_LastEntryWithinThreshold ==
    prompt.step = StepGenerateFixes =>
        LET Keep(v) == \E i \in DOMAIN priorities :
                           /\ priorities[i].VulnerabilityID = v.ID
                           /\ \A j \in DOMAIN priorities :
                                  j > i => priorities[j].VulnerabilityID # v.ID
                           /\ priorities[i].Priority <= PriorityThreshold
        IN prompt.vulnData = SelectSeq(analysis.Vulnerabilities, Keep)

\* CVE-A has two entries, the last one within the threshold, and is sent
\* for fixing; CVE-B has no entry and is left out.
C4_Witness ==
    /\ prompt.step = StepGenerateFixes
    /\ analysis.Vulnerabilities = <<[ID |-> "CVE-B"], [ID |-> "CVE-A"]>>
    /\ priorities = <<[VulnerabilityID |-> "CVE-A", Priority |-> 4],
                      [VulnerabilityID |-> "CVE-A", Priority |-> 3]>>
    /\ prompt.vulnData = <<[ID |-> "CVE-A"]>>

\* C10 as stated: a step whose model call fails transport-wise or returns
\* text that is not JSON is attempted again, so a run fails for such a
\* cause only after the step was called more than once.
C10_FailedStepWasRetried ==
    (pc = "failed" /\ (lastResp.err \/ lastResp.kind = "notjson")) =>
        Cardinality({i \in 1..Len(calls) : calls[i] = calls[Len(calls)]}) > 1

\* The kinds of JSON document json.Unmarshal cannot store in the value a
\* step expects: another type of value than the step's object or array, or
\* a field of the wrong type.
ExpectsArray(step) == step \in {StepPrioritize, StepGenerateFixes}
MismatchKinds(step) ==
    IF ExpectsArray(step)
    THEN {"scalar", "obj", "emptyobj", "mistyped"}
    ELSE {"scalar", "arr", "mistyped"}

\* C14: when the answer to a step is JSON of another structure than the
\* step expects (an object for an array, a wrongly typed field), the step
\* fails at once: the run returns nil and an error and no further model
\* call is made, for that step or a later one.
C14_StructureMismatchFailsStep ==
    \A i \in 1..Len(exchanges) :
        LET x == exchanges[i] IN
        (~x.resp.err /\ x.resp.kind \in MismatchKinds(x.prompt.step)) =>
            /\ pc = "failed"
            /\ outcomes[i] = "parse_error"
            /\ Len(calls) = i
            /\ ret.returned /\ ret.isNil /\ ret.err # NoErr

\* The model answered the prioritize step with an object.
C14_Witness ==
    /\ pc = "failed"
    /\ Len(exchanges) = 2
    /\ exchanges[2].prompt.step = StepPrioritize
    /\ ~exchanges[2].resp.err
    /\ exchanges[2].resp.kind = "obj"
    /\ Len(calls) = 2

\* C15 as stated: a step answered with null, with {} or without the
\* expected fields never yields a result; the run aborts instead of going
\* on with a zero-valued result the model did not supply.
C15_NoDefaultedStepResult ==
    \A i \in 1..Len(exchanges) :
        LET x == exchanges[i] IN
        (~x.resp.err /\ x.resp.kind \in {"null", "emptyobj"}) =>
            (outcomes[i] # "ok" /\ pc = "failed")

\* C16: a successful run has made exactly four model calls, one per step,
\* in the order analyze, prioritize, generate fixes, create package, also
\* when no vulnerability was within the threshold.
C16_FourStepsOnceEachInOrder ==
    pc = "done" =>
        /\ calls = StepOrder
        /\ Len(exchanges) = 4
        /\ \A i \in 1..4 : exchanges[i].prompt.step = StepOrder[i]
        /\ outcomes = <<"ok", "ok", "ok", "ok">>

\* A successful run whose only vulnerability was ranked above the threshold:
\* step 3 was called with an empty vulnerability list.
C16_Witness ==
    /\ pc = "done"
    /\ analysis.Vulnerabilities = <<[ID |-> "CVE-A"]>>
    /\ priorities = <<[VulnerabilityID |-> "CVE-A", Priority |-> 4]>>
    /\ exchanges[3].prompt.vulnData = <<>>
    /\ calls = StepOrder

\* C17: the error of a failed run names the step that failed, which is the
\* first step whose model call or parse failed, and keeps that step's own
\* error inside.
C17_ErrorNamesFailedStep ==
    pc = "failed" =>
        LET k == Len(calls) IN
        /\ Len(outcomes) = k
        /\ \A i \in 1..(k - 1) : outcomes[i] = "ok"
        /\ outcomes[k] # "ok"
        /\ ret.err.step =
              <<"analysis", "prioritization", "fix generation", "package creation">>[k]
        /\ ret.err.cause =
              IF outcomes[k] = "llm_error" THEN "LLM call failed"
              ELSE <<"failed to parse analysis response",
                     "failed to parse priorities response",
                     "failed to parse fixes response",
                     "failed to parse package response">>[k]

\* The model call of step 3 failed after two successful steps.
C17_Witness ==
    /\ pc = "failed"
    /\ Len(calls) = 3
    /\ outcomes = <<"ok", "ok", "llm_error">>
    /\ ret.err = [step |-> "fix generation", cause |-> "LLM call failed"]

C22_DeadlineEndsRunInFailure ==
    deadline.elapsed =>
        /\ pc # "done"
        /\ Len(calls) <= deadline.returned + 1
        /\ \A i \in 1..Len(outcomes) :
               i > deadline.returned => outcomes[i] = "llm_error"
        /\ Len(outcomes) > deadline.returned => pc = "failed"
        /\ ret.returned => (ret.isNil /\ ret.err # NoErr)

\* The deadline passed while the call of step 3 was under way, after two
\* successful steps, and the run has failed in step 3.
C22_Witness ==
    /\ deadline = [elapsed |-> TRUE, returned |-> 2]
    /\ outcomes = <<"ok", "ok", "llm_error">>
    /\ calls = <<StepAnalyze, StepPrioritize, StepGenerateFixes>>
    /\ pc = "failed"
    /\ ret.returned /\ ret.isNil
    /\ ret.err = [step |-> "fix generation", cause |-> "LLM call failed"]

\* C28 as stated: every entry of the Priorities of a returned run has a
\* rank in 1..5, and so has every entry the filter of generateFixes has
\* compared with the threshold.
C28_RanksWithinDomain ==
    /\ pc = "done" =>
          \A i \in DOMAIN response.Priorities :
              response.Priorities[i].Priority \in 1..5
    /\ Len(exchanges) >= 3 =>
          \A i \in DOMAIN exchanges[3].prompt.priorityData :
              exchanges[3].prompt.priorityData[i].Priority \in 1..5

\* C29: the Analysis of a returned run is the value decoded from the answer
\* to step 1 and its Priorities the value decoded from the answer to step 2;
\* from the end of step 1 on, the Analysis under construction is that value.
C29_AnalysisAndPrioritiesAsParsed ==
    /\ (Len(outcomes) >= 1 /\ outcomes[1] = "ok") =>
          /\ analysis = UnmarshalStruct(exchanges[1].resp.kind,
                                        exchanges[1].resp.val, ZeroAnalysis).val
          /\ response.Analysis = analysis
    /\ (Len(outcomes) >= 2 /\ outcomes[2] = "ok") =>
          /\ priorities = UnmarshalSlice(exchanges[2].resp.kind,
                                         exchanges[2].resp.val).val
          /\ response.Priorities = priorities
    /\ pc = "done" => (outcomes[1] = "ok" /\ outcomes[2] = "ok")

\* A returned run whose analysis lists two vulnerabilities of which only
\* the second is ranked within the threshold.
C29_Witness ==
    /\ pc = "done"
    /\ response.Analysis.Vulnerabilities = <<[ID |-> "CVE-A"], [ID |-> "CVE-B"]>>
    /\ response.Priorities = <<[VulnerabilityID |-> "CVE-A", Priority |-> 4],
                               [VulnerabilityID |-> "CVE-B", Priority |-> 3]>>
    /\ exchanges[3].prompt.vulnData = <<[ID |-> "CVE-B"]>>

\* C30: the StepResults of a returned run has the four step names as its
\* keys, and its entries are the Analysis, the Priorities, the Fixes of
\* the RemediationPackage and the RemediationPackage of the same run.
C30_StepResultsAgreeWithFields ==
    pc = "done" =>
        /\ DOMAIN response.StepResults = AgentStep
        /\ response.StepResults[StepAnalyze] = response.Analysis
        /\ response.StepResults[StepPrioritize] = response.Priorities
        /\ response.StepResults[StepGenerateFixes] = response.RemediationPackage.Fixes
        /\ response.StepResults[StepCreatePackage] = response.RemediationPackage

\* A returned run with one fix, whose package answer echoed no fixes.
C30_Witness ==
    /\ pc = "done"
    /\ exchanges[4].resp.kind = "obj"
    /\ exchanges[4].resp.val.Fixes = <<>>
    /\ response.StepResults[StepGenerateFixes] = <<[VulnerabilityID |-> "CVE-A"]>>
    /\ response.StepResults[StepCreatePackage].Fixes = <<[VulnerabilityID |-> "CVE-A"]>>

\* C32 as stated: the prompt of the prioritize step carries the whole
\* Analysis of step 1: its count and its risk score as well as its
\* vulnerability list.
C32_PromptEmbedsFullAnalysis ==
    prompt.step = StepPrioritize =>
        /\ {"vulnData", "totalVulnerabilities", "riskScore"} \subseteq DOMAIN prompt
        /\ prompt.vulnData = analysis.Vulnerabilities
        /\ prompt.totalVulnerabilities = analysis.TotalVulnerabilities
        /\ prompt.riskScore = analysis.RiskScore

\* C32 (amended): of the Analysis of step 1 the prompt of the prioritize
\* step carries the vulnerability list, whole and in order, and nothing
\* else.
C32_PromptEmbedsVulnerabilityList ==
    /\ prompt.step = StepPrioritize =>
          prompt = [step |-> StepPrioritize, vulnData |-> analysis.Vulnerabilities]
    /\ Len(exchanges) >= 2 =>
          exchanges[2].prompt =
              [step |-> StepPrioritize, vulnData |-> analysis.Vulnerabilities]

\* The prioritize call of a run whose analysis has two vulnerabilities and
\* a risk score.
C32_Witness ==
    /\ pc = StepPrioritize
    /\ prompt.step = StepPrioritize
    /\ analysis.RiskScore = 85
    /\ analysis.TotalVulnerabilities = 2
    /\ prompt.vulnData = <<[ID |-> "CVE-A"], [ID |-> "CVE-B"]>>

\* C33: when the priorities have several entries for one identifier, a
\* vulnerability of the analysis with that identifier is sent for fixing
\* if and only if the rank of the last of these entries is within the
\* threshold.
C33_LastDuplicateDecides ==
    prompt.step = StepGenerateFixes =>
        \A id \in VulnIds :
            LET entries == {i \in DOMAIN priorities :
                               priorities[i].VulnerabilityID = id}
                last == CHOOSE i \in entries : \A j \in entries : j <= i
                listed == \E v \in DOMAIN analysis.Vulnerabilities :
                              analysis.Vulnerabilities[v].ID = id
                sent == \E k \in DOMAIN prompt.vulnData :
                            prompt.vulnData[k].ID = id
            IN Cardinality(entries) >= 2 =>
                   (sent <=> (listed /\ priorities[last].Priority <= PriorityThreshold))

\* CVE-A is ranked 3 and then 4: it is not sent for fixing.
C33_Witness ==
    /\ prompt.step = StepGenerateFixes
    /\ analysis.Vulnerabilities = <<[ID |-> "CVE-A"]>>
    /\ priorities = <<[VulnerabilityID |-> "CVE-A", Priority |-> 3],
                      [VulnerabilityID |-> "CVE-A", Priority |-> 4]>>
    /\ prompt.vulnData = <<>>

(***************************************************************************)
(* Properties of CallLLMWithRetry (specification SpecRetry)                *)
(***************************************************************************)
IsCall(e) == e.ev = "call"
IsResult(e) == e.ev = "result"
IsWait(e) == e.ev = "wait"

\* The calls made, the results they gave and the waits entered so far
CallsMade == SelectSeq(r_log, IsCall)
ResultsSeen == SelectSeq(r_log, IsResult)
WaitsEntered == SelectSeq(r_log, IsWait)

\* A result that CallLLMWithRetry has to accept: text, no error, valid JSON
GoodResult(e) == e.err = "nil" /\ e.text \in JSONTexts

\* C5: when the first attempt (maxRetries >= 1) yields text that parses as
\* JSON, the wrapper returns that text unchanged and no error, after exactly
\* one model call and without any wait.
C5_FirstValidAnswerReturned ==
    (maxRetries >= 1 /\ Len(ResultsSeen) >= 1 /\ GoodResult(ResultsSeen[1])) =>
        /\ r_ret.returned
        /\ r_ret.text = ResultsSeen[1].text
        /\ r_ret.err = "nil"
        /\ Len(CallsMade) = 1
        /\ WaitsEntered = <<>>
        /\ Len(r_log) = 2

\* The first attempt gave valid JSON and the wrapper returned.
C5_Witness ==
    /\ r_pc = "returned"
    /\ maxRetries = 3
    /\ Len(ResultsSeen) = 1
    /\ ResultsSeen[1].text = "null"
    /\ r_ret.text = "null"

C7_AtMostMaxCalls ==
    /\ Len(CallsMade) <= (IF maxRetries < 0 THEN 0 ELSE maxRetries)
    /\ ( /\ r_ret.returned
         /\ ~ctxDone
         /\ maxRetries >= 1
         /\ \A j \in 1..Len(ResultsSeen) : ~GoodResult(ResultsSeen[j]) ) =>
            /\ r_ret.err = "LLM call failed after attempts"
            /\ r_ret.text = ""
            /\ Len(CallsMade) = maxRetries
            /\ Len(ResultsSeen) = maxRetries

\* Three attempts, all failing, and the wrapper gave up.
C7_Witness ==
    /\ r_pc = "returned"
    /\ ~ctxDone
    /\ maxRetries = 3
    /\ Len(CallsMade) = 3
    /\ r_ret.err = "LLM call failed after attempts"

\* C8: when the context is done while the wrapper is in a backoff wait, the
\* wrapper's next step is to return the context's error, and it makes no
\* further model call.
C8_CancelledWaitReturnsCtxErr ==
    [][(r_pc = "waiting" /\ ctxDone) =>
          /\ r_pc' = "returned"
          /\ r_ret'.err = "ctx"
          /\ r_ret'.text = ""
          /\ SelectSeq(r_log', IsCall) = CallsMade]_vars

\* The context ended during the second wait and the wrapper returned.
C8_Witness ==
    /\ r_pc = "returned"
    /\ r_ret.err = "ctx"
    /\ Len(WaitsEntered) = 2
    /\ Len(CallsMade) = 2
    /\ ~CallsMade[2].doomed
    /\ r_log[Len(r_log)].ev = "interrupted"

\* C11: whenever CallLLMWithRetry returns a nil error the text it returns
\* parses as JSON; whenever no attempt produced valid JSON it returns an
\* error and the empty string.
C11_NilErrorMeansValidJSON ==
    r_ret.returned =>
        /\ r_ret.err = "nil" => r_ret.text \in JSONTexts
        /\ (\A j \in 1..Len(ResultsSeen) : ~GoodResult(ResultsSeen[j])) =>
               (r_ret.err # "nil" /\ r_ret.text = "")

\* The first attempt answered text that is not JSON, the second valid JSON,
\* which was returned.
C11_Witness ==
    /\ r_pc = "returned"
    /\ Len(ResultsSeen) = 2
    /\ ResultsSeen[1].err = "nil"
    /\ ResultsSeen[1].text = "Sorry, I cannot help"
    /\ r_ret.err = "nil"
    /\ r_ret.text = ResultsSeen[2].text

\* C12: when all maxRetries (>= 1) attempts are used up, the error returned
\* wraps the error of the last attempt made: its transport error, or the
\* validation error of its text; never the error of an earlier attempt.
C12_ExhaustedWrapsLastError ==
    (r_ret.returned /\ r_ret.err = "LLM call failed after attempts" /\ maxRetries >= 1) =>
        /\ Len(ResultsSeen) = maxRetries
        /\ r_ret.cause.attempt = maxRetries
        /\ LET last == ResultsSeen[maxRetries] IN
           IF last.err = "nil"
           THEN r_ret.cause.kind = "invalid JSON response"
           ELSE r_ret.cause.kind = last.err

\* A transport error on the first attempt, text that is not JSON on the
\* third and last.
C12_Witness ==
    /\ r_pc = "returned"
    /\ maxRetries = 3
    /\ r_ret.err = "LLM call failed after attempts"
    /\ ResultsSeen[1].err = "transport"
    /\ ResultsSeen[3].err = "nil"
    /\ r_ret.cause = InvalidJSONError(3)

\* C13 as stated: whenever the context ends before the wrapper returns, be
\* it during a wait or during a model call, the last one included, the
\* error the wrapper (maxRetries >= 1) reports is the context's error and
\* not the error of line 172.
C13_CancelledRunReturnsCtxErr ==
    (r_ret.returned /\ ctxDone /\ maxRetries >= 1 /\ r_ret.err # "nil") =>
        r_ret.err = "ctx"

IsWaited(e) == e.ev = "waited"

\* The waits that ran their whole backoff
WaitsElapsed == SelectSeq(r_log, IsWaited)

\* C34: a backoff wait is entered only after a failed call that is not the
\* last one allowed, and a wait that elapses is followed at once by the next
\* call; n calls go with at most n-1 elapsed waits; the exhausted-retries
\* error is returned in the step that ends call number maxRetries, with no
\* wait in between.
C34_NoWaitAfterFinalAttempt ==
    /\ \A i \in DOMAIN r_log :
          IsWait(r_log[i]) =>
              /\ i > 1
              /\ IsResult(r_log[i - 1])
              /\ r_log[i - 1].n < maxRetries
              /\ i < Len(r_log) =>
                    \/ /\ IsWaited(r_log[i + 1])
                       /\ i + 2 <= Len(r_log)
                       /\ IsCall(r_log[i + 2])
                    \/ /\ r_log[i + 1].ev = "interrupted"
                       /\ Len(r_log) = i + 1
                       /\ r_ret.err = "ctx"
    /\ Len(CallsMade) >= 1 => Len(WaitsElapsed) <= Len(CallsMade) - 1
    /\ Len(CallsMade) = 0 => WaitsEntered = <<>>
    /\ (r_log # <<>> /\ IsResult(r_log[Len(r_log)])
            /\ r_log[Len(r_log)].n = maxRetries) => r_ret.returned
    /\ (r_ret.returned /\ r_ret.err = "LLM call failed after attempts"
            /\ maxRetries >= 1) =>
          /\ IsResult(r_log[Len(r_log)])
          /\ r_log[Len(r_log)].n = maxRetries
          /\ Len(WaitsEntered) = maxRetries - 1

\* Two attempts allowed, both failed: one wait, between the two calls, and
\* the error right after the second result.
C34_Witness ==
    /\ r_pc = "returned"
    /\ maxRetries = 2
    /\ r_ret.err = "LLM call failed after attempts"
    /\ Len(r_log) = 6
    /\ IsResult(r_log[2]) /\ IsWait(r_log[3]) /\ IsWaited(r_log[4])
    /\ IsCall(r_log[5]) /\ IsResult(r_log[6])

\* C36: invoked with maxRetries <= 0 the wrapper makes no model call and
\* enters no wait, and what it returns is the empty string with an error
\* that is not nil.
C36_NoAttemptsAllowed ==
    maxRetries <= 0 =>
        /\ r_log = <<>>
        /\ r_pc \in {"start", "returned"}
        /\ r_pc = "returned" =>
              /\ r_ret.returned
              /\ r_ret.text = ""
              /\ r_ret.err # "nil"
              /\ r_ret.err = "LLM call failed after attempts"

\* A negative maxRetries: the wrapper has returned, and lastErr was never
\* set.
C36_Witness ==
    /\ maxRetries = -1
    /\ r_pc = "returned"
    /\ r_ret.cause = NilError
    /\ r_log = <<>>

\* C35: a ProcessScan run that has begun ends, done or failed; a
\* CallLLMWithRetry invocation that has begun returns, and by then it has
\* made at most maxRetries model calls and entered at most maxRetries-1
\* waits (none of either when maxRetries <= 0).
C35_RunsTerminate ==
    /\ (pc # "idle") ~> (pc \in {"done", "failed"} /\ ret.returned)
    /\ (r_pc # "idle") ~>
          /\ r_pc = "returned"
          /\ r_ret.returned
          /\ Len(CallsMade) <= (IF maxRetries < 0 THEN 0 ELSE maxRetries)
          /\ Len(WaitsEntered) <= (IF maxRetries < 1 THEN 0 ELSE maxRetries - 1)

\* An invocation that used every attempt and every wait it was allowed,
\* and returned.
C35_Witness ==
    /\ r_pc = "returned"
    /\ r_ret.returned
    /\ maxRetries = MaxAttempts
    /\ Len(CallsMade) = maxRetries
    /\ Len(WaitsEntered) = maxRetries - 1
    /\ Len(WaitsElapsed) = maxRetries - 1

(***************************************************************************)
(* Properties of CallLLM's clean-up (specification SpecClean)              *)
(***************************************************************************)
AllSpace(str) == \A i \in 1..Len(str) : IsSpace(str[i])

\* core is str without its leading and trailing whitespace
IsTrimOf(core, str) ==
    /\ core = <<>> \/ (~IsSpace(core[1]) /\ ~IsSpace(core[Len(core)]))
    /\ \E lead \in 0..(Len(str) - Len(core)) :
           /\ AllSpace(SubSeq(str, 1, lead))
           /\ SubSeq(str, lead + 1, lead + Len(core)) = core
           /\ AllSpace(SubSeq(str, lead + Len(core) + 1, Len(str)))

\* inside is what lies strictly between the first and the last line of str,
\* a text of more than one line
IsBetweenFirstAndLastLine(inside, str) ==
    \E first, last \in 1..Len(str) :
        /\ str[first] = NL /\ \A i \in 1..(first - 1) : str[i] # NL
        /\ str[last] = NL  /\ \A i \in (last + 1)..Len(str) : str[i] # NL
        /\ inside = SubSeq(str, first + 1, last - 1)

HasNL(str) == \E i \in 1..Len(str) : str[i] = NL

\* C9 as stated: for a content made of optional whitespace, the opening
\* json fence, an inner text, the closing fence and optional whitespace,
\* CallLLM returns exactly the inner text.
C9_ReturnsInnerTextExactly ==
    (c_pc = "returned" /\ c_in.shape = "json_fence") => c_out = c_in.inner

\* C9 (amended): for such a content CallLLM returns the inner text without
\* its leading and trailing whitespace; when that trimmed text itself starts
\* with a fence marker and has more than one line, its first and last lines
\* are removed as well.
C9_ReturnsTrimmedInnerText ==
    (c_pc = "returned" /\ c_in.shape = "json_fence") =>
        \E lo \in 1..(Len(c_in.inner) + 1), hi \in 0..Len(c_in.inner) :
            LET core == SubSeq(c_in.inner, lo, hi) IN
            /\ IsTrimOf(core, c_in.inner)
            /\ IF core # <<>> /\ core[1] = FENCE /\ HasNL(core)
               THEN IsBetweenFirstAndLastLine(c_out, core)
               ELSE c_out = core

\* A fenced JSON answer as models write it: a line break after the opening
\* fence and one before the closing fence, both dropped from the result.
C9_Witness ==
    /\ c_pc = "returned"
    /\ c_in.shape = "json_fence"
    /\ c_in.inner = <<NL, CH, SP, CH, NL>>
    /\ c_out = <<CH, SP, CH>>

\* C25: for a content whose first line is the fence marker alone and whose
\* last line is the fence marker alone, CallLLM returns the text between
\* the two lines, which is their lines joined in order.
C25_UnlabeledFenceReturnsInnerLines ==
    ( /\ c_pc = "returned"
      /\ c_in.shape = "fence"
      /\ c_in.pre = <<>> /\ c_in.post = <<>> ) =>
        /\ c_err = "nil"
        /\ c_out = c_in.inner

\* An unlabeled fence around three lines, the second of them blank.
C25_Witness ==
    /\ c_pc = "returned"
    /\ c_in.shape = "fence"
    /\ c_in.pre = <<>> /\ c_in.post = <<>>
    /\ c_in.inner = <<CH, NL, NL, SP, CH>>
    /\ c_out = <<CH, NL, NL, SP, CH>>

\* The lines of a text that carry something: each line without its leading
\* and trailing whitespace, blank lines and lines that are the fence marker
\* alone left out.
DataLines(str) ==
    LET lines == Split(str)
        trimmed == [i \in DOMAIN lines |-> TrimSpace(lines[i])]
        IsData(l) == l # <<>> /\ l # <<FENCE>>
    IN SelectSeq(trimmed, IsData)

\* a occurs in b as a subsequence
RECURSIVE IsSubsequence(_, _)
IsSubsequence(a, b) ==
    IF a = <<>> THEN TRUE
    ELSE IF b = <<>> THEN FALSE
    ELSE IF Head(a) = Head(b) THEN IsSubsequence(Tail(a), Tail(b))
    ELSE IsSubsequence(a, Tail(b))

\* C26 as stated: the clean-up removes fence lines only: every line of the
\* text that carries something is still there, in order, in the text
\* CallLLM returns.
C26_OnlyFenceLinesRemoved ==
    (c_pc = "returned" /\ c_in.http = "ok") =>
        IsSubsequence(DataLines(c_in.inner), DataLines(c_out))

\* C27: an invocation of CallLLM makes one outbound request; it returns an
\* error and the empty text when the request failed, the status was not
\* 200, the envelope did not decode or there was no choice, and a text with
\* no error otherwise.
C27_OneRequestErrorOrText ==
    /\ c_pc = "in" => c_requests = 0
    /\ c_pc = "returned" =>
          /\ c_requests = 1
          /\ c_in.http \in HTTPFailures => (c_err # "nil" /\ c_out = <<>>)
          /\ c_in.http = "ok" => c_err = "nil"

\* A response with status 200 and an empty choice list.
C27_Witness ==
    /\ c_pc = "returned"
    /\ c_in.http = "no_choices"
    /\ c_requests = 1
    /\ c_err = "no response choices returned from LLM"
    /\ c_out = <<>>

(***************************************************************************)
(* Properties of the HTTP handlers (specification SpecHTTP)                *)
(***************************************************************************)

\* C19 as stated: a pipeline run started for a request that carries an
\* agent_config works with the request's priority threshold and the
\* request's timeout.
C19_RunUsesRequestConfig ==
    (h_run.ran /\ h_req.agent_config.present) =>
        /\ h_run.PriorityThreshold = h_req.agent_config.PriorityThreshold
        /\ h_run.TimeoutMinutes = h_req.agent_config.TimeoutMinutes

\* C20 as stated: a request to the agent endpoint with a well-formed body
\* and non-empty target_type and target is answered only after the scanner
\* has run and, the scan having succeeded, the pipeline has run, whatever
\* its use_agent member.
C20_AgentEndpointRunsPipeline ==
    ( /\ h_pc = "responded"
      /\ h_req.endpoint = EndpointAgentScan
      /\ h_req.wellFormed
      /\ h_req.target_type # ""
      /\ h_req.target # "" ) =>
        /\ h_scan # "none"
        /\ h_scan = "ok" => h_run.ran

\* C23: a model call, by the pipeline or by the legacy summary, is made
\* only for a request whose scan has succeeded; a request with an empty
\* target_type or target, with a target type the scanner does not know, or
\* whose scan failed is answered with a failure status and no model call.
C23_ModelCallOnlyAfterScan ==
    /\ h_llm.called # "none" =>
          /\ h_scan = "ok"
          /\ h_bound.TargetType \in {"file", "image"}
          /\ h_bound.Target # ""
    /\ h_run.ran => h_llm.called = "pipeline"
    /\ h_pc \in {"in_ProcessScan", "in_Summarize"} => h_llm.called # "none"
    /\ (h_pc = "responded" /\ h_scan \in {"none", "error"}) =>
          /\ h_resp.status \in {400, 500}
          /\ h_resp.error # ""
          /\ h_llm.called = "none"

\* A request for the pipeline with an unknown target type: the scan failed
\* and the reply is 500 with no model call.
C23_Witness ==
    /\ h_pc = "responded"
    /\ h_bound.TargetType = "repo"
    /\ h_bound.Target # ""
    /\ h_bound.UseAgent
    /\ h_scan = "error"
    /\ h_resp.status = 500
    /\ h_llm.called = "none"

\* C24: when the pipeline run of a request has failed, the reply has a
\* failure status and the error, carries no agent_result and is the only
\* reply; the scan results are included.
C24_PipelineFailureIsReportedAsFailure ==
    (h_llm.called = "pipeline" /\ h_llm.outcome = "error") =>
        /\ h_pc = "responded"
        /\ h_resp.status = 500
        /\ h_resp.error = "Agent processing failed"
        /\ ~h_resp.agent_result
        /\ h_resp.scan_results

\* The pipeline run of a request from a command-line client has failed.
C24_Witness ==
    /\ h_pc = "responded"
    /\ h_req.cli
    /\ h_run.ran
    /\ h_llm = [called |-> "pipeline", outcome |-> "error"]
    /\ h_resp.status = 500

\* C31: for a request whose scan succeeded, once the handler has
\* branched, the pipeline has run if and only if use_agent is true, the
\* legacy summary has run if and only if use_agent is not true and
\* summarize is true, never both; with neither flag no model call is made
\* and the reply is the scan results alone.
C31_ExactlyTheSelectedPath ==
    (h_scan = "ok" /\ h_pc # "scanned") =>
        /\ (h_llm.called = "pipeline") <=> (h_req.use_agent = "true")
        /\ h_run.ran <=> (h_req.use_agent = "true")
        /\ (h_llm.called = "summarize") <=>
              (h_req.use_agent # "true" /\ h_req.summarize)
        /\ (h_req.use_agent # "true" /\ ~h_req.summarize) =>
              /\ h_llm.called = "none"
              /\ h_pc = "responded"
              /\ h_resp = Reply(200, "", "json", FALSE, FALSE, TRUE)

\* Both flags are set: the pipeline has run and the summary has not.
C31_Witness ==
    /\ h_pc = "responded"
    /\ h_scan = "ok"
    /\ h_req.use_agent = "true"
    /\ h_req.summarize
    /\ h_llm = [called |-> "pipeline", outcome |-> "ok"]
    /\ h_resp.agent_result
    /\ ~h_resp.summary

(***************************************************************************)
(* Properties of concurrent runs (specification SpecConc)                  *)
(***************************************************************************)

\* A run executed alone on the answers ans: its locals, its prompts and
\* what it returns after the first n answers.
RECURSIVE Alone(_, _)
Alone(ans, n) ==
    IF n = 0
    THEN [loc |-> FreshLocals, prompts |-> <<>>, ret |-> NotReturned, pc |-> StepAnalyze]
    ELSE LET before == Alone(ans, n - 1)
             step == StepOrder[n]
             r == StepResult(step, ans[n], before.loc)
             prompts == Append(before.prompts,
                               PromptOf(step, before.loc, TheAgent))
         IN IF r.err
            THEN [loc |-> before.loc, prompts |-> prompts, pc |-> "failed",
                  ret |-> [returned |-> TRUE, isNil |-> TRUE,
                           err |-> StepError(ErrName[step], r.cause)]]
            ELSE [loc |-> LocalsAfter(step, before.loc, r.val),
                  prompts |-> prompts, pc |-> NextPosition(step),
                  ret |-> IF n = 4
                          THEN [returned |-> TRUE, isNil |-> FALSE, err |-> NoErr]
                          ELSE NotReturned]

\* C21: whatever the interleaving, each run is where it would be, holds
\* what it would hold, has sent the prompts it would have sent and has
\* returned what it would have returned had it run alone on the answers it
\* got; and the agent's fields are as they were set at start-up.
C21_RunsAreIndependent ==
    /\ t_agent = TheAgent
    /\ \A run \in Runs :
          t_pc[run] # "idle" =>
              LET answers == [i \in DOMAIN t_x[run] |-> t_x[run][i].resp]
                  alone == Alone(answers, Len(answers))
              IN /\ t_pc[run] = alone.pc
                 /\ t_loc[run] = alone.loc
                 /\ [i \in DOMAIN t_x[run] |-> t_x[run][i].prompt] = alone.prompts
                 /\ t_ret[run] = alone.ret

\* Two runs with different analyses, the second finished while the first
\* was still waiting for its fixes.
C21_Witness ==
    /\ t_pc["run-1"] = StepGenerateFixes
    /\ t_pc["run-2"] = "done"
    /\ t_loc["run-1"].analysis.Vulnerabilities = <<[ID |-> "CVE-A"]>>
    /\ t_loc["run-2"].analysis.Vulnerabilities = <<[ID |-> "CVE-A"], [ID |-> "CVE-B"]>>
    /\ t_loc["run-2"].response.RemediationPackage.Fixes = <<[VulnerabilityID |-> "CVE-B"]>>
    /\ t_ret["run-2"].returned /\ ~t_ret["run-2"].isNil
    /\ ~t_ret["run-1"].returned

====
